---------------------------- MODULE Spec2Model ----------------------------
(***************************************************************************)
(* Model of the document-and-secondary-index layer of the petstore server  *)
(* (src/database.c): the hiredis connection with its pipelined output      *)
(* buffer and reply stream, the Redis commands the layer issues, and the   *)
(* db_* operations that keep primary slots, membership sets and field      *)
(* indexes.                                                                *)
(***************************************************************************)
EXTENDS Integers, Sequences, FiniteSets, TLC

VARIABLES
    store,   \* the Redis keyspace: key -> string value or set of members
    obuf,    \* redis_context output buffer: commands appended, not yet written
    inbuf,   \* replies produced by the server and not yet returned to a caller
    rd,      \* how many leading replies of inbuf already sit in the reader buffer
    net,     \* the connection: "up"; "down" (the peer is gone, the next write
             \* fails); "err" (redis_context->err is set)
    sawErr,  \* the last call was handed an error reply by redisGetReply
    alive,   \* FALSE once the process has crashed (undefined behaviour hit)
    last,    \* the last database call: its name, arguments and return value
    mutOnly, \* TRUE while every call so far was a successful insert, update
             \* or delete
    live,    \* the (collection, id) pairs the callers have successfully
             \* inserted or updated and not successfully deleted since
    fresh,   \* TRUE while no insert named an id that was live
    ncalls,  \* how many database calls have been made
    peer,    \* a delete that another process runs on a connection of its
             \* own to the same Redis: where it is and what it has fetched
    main,    \* main(): where it is, what redis_context points at, how often
             \* the handle was freed and whether it was used when not valid
    http     \* the HTTP request being served: method, url, the buffer
             \* *con_cls, the chunks that arrived, what the route handler
             \* was handed and the responses queued

vars == <<store, obuf, inbuf, rd, net, sawErr, alive, last, mutOnly, live, fresh, ncalls, peer, main, http>>

-----------------------------------------------------------------------------
(* Bounds of the model *)

\* Commands/replies that may be outstanding on the connection before an
\* operation that leaves more of them behind is no longer explored.
MaxPending == 2

\* Number of database calls explored in one behaviour.
MaxCalls == 3

\* Largest number of tag objects in a request document.
MaxTags == 1

\* Largest number of values in a db_find query.
MaxValues == 2

-----------------------------------------------------------------------------
(* Program constants *)

INT_MAX == 2147483647

INT_MIN == -2147483647 - 1

-----------------------------------------------------------------------------
(* JSON values as they appear on the wire and in the primary slot *)

Absent == [k |-> "absent"]

Num(n) == [k |-> "num", n |-> n]

Str(x) == [k |-> "str", s |-> x]

NULL == [k |-> "NULL"]

\* A char* that is NULL (the valuestring of an item that is not a string).
NullStr == "<NULL>"

\* cJSON_Parse of a number: valuedouble holds the number, valueint saturates.
\* cJSON_Parse of a string: valuestring holds it, valueint stays 0.
cJSON_ParseItem(j) ==
    CASE j.k = "num" ->
            [type |-> "Number", valuedouble |-> j.n,
             valueint |-> IF j.n >= INT_MAX THEN INT_MAX
                          ELSE IF j.n <= INT_MIN THEN INT_MIN ELSE j.n,
             valuestring |-> NullStr]
      [] j.k = "str" ->
            [type |-> "String", valuedouble |-> 0, valueint |-> 0,
             valuestring |-> j.s]
      [] OTHER -> NULL

\* print_value: a number is printed from valuedouble, a string from valuestring.
cJSON_PrintItem(it) ==
    IF it = NULL THEN Absent
    ELSE IF it.type = "Number" THEN Num(it.valuedouble)
    ELSE Str(it.valuestring)

\* A text that is not JSON: cJSON_Parse returns NULL for it.
Undecodable == [k |-> "undecodable"]

\* cJSON_Parse of a document: every member is parsed into an item; the tags
\* array keeps its order.
cJSON_Parse(w) ==
    IF w = Undecodable THEN NULL
    ELSE
    [id |-> cJSON_ParseItem(w.id),
     status |-> cJSON_ParseItem(w.status),
     username |-> cJSON_ParseItem(w.username),
     tags |-> IF w.tags.k = "arr"
              THEN [type |-> "Array",
                    items |-> [i \in 1..Len(w.tags.a) |->
                                  [name |-> cJSON_ParseItem(w.tags.a[i].name)]]]
              ELSE NULL]

\* cJSON_PrintUnformatted of a document tree.
cJSON_PrintUnformatted(doc) ==
    [id |-> cJSON_PrintItem(doc.id),
     status |-> cJSON_PrintItem(doc.status),
     username |-> cJSON_PrintItem(doc.username),
     tags |-> IF doc.tags = NULL THEN Absent
              ELSE [k |-> "arr",
                    a |-> [i \in 1..Len(doc.tags.items) |->
                              [name |-> cJSON_PrintItem(doc.tags.items[i].name)]]]]

\* cJSON_CreateArray and cJSON_AddItemToArray: the result of a query.
cJSON_CreateArray == [type |-> "Array", items |-> <<>>]

cJSON_AddItemToArray(array, item) == [array EXCEPT !.items = Append(@, item)]

-----------------------------------------------------------------------------
(* Index Key Builder: the printf formats of database.c *)

\* "%s:%d" (store_document, db_user_insert) 
PrimaryKeyInt(c, id) == c \o ":" \o ToString(id)

\* "GET %s:%s" (db_find_one, db_find): the id is a string here
PrimaryKeyStr(c, id) == c \o ":" \o id

\* "%s:%s" with the collection name twice (db_pet_insert, db_user_insert,
\* db_find_all)
MembershipKey(c) == c \o ":" \o c

\* "SREM %s %d" (remove_document_from_collection)
CollectionKey(c) == c

\* "SADD %s:%s:%s %d" with "status" (db_pet_insert)
StatusAddKey(c, v) == c \o ":" \o "status" \o ":" \o v

\* "SADD %s:%s:%s %d" with "tags" (store_tags)
TagAddKey(c, name) == c \o ":" \o "tags" \o ":" \o name

\* "%s:%s:%s" with "username" (db_user_insert)
UsernameAddKey(c, v) == c \o ":" \o "username" \o ":" \o v

\* "SREM %s:%s %d" (remove_document_from_field)
FieldRemKey(field_id, v) == field_id \o ":" \o v

\* "%s:%s" with the tag name (remove_document_from_tags)
TagRemKey(c, name) == c \o ":" \o name

\* "%s:%s" with "username" (db_user_delete builds field_id)
UsernameFieldId(c) == c \o ":" \o "username"

\* "SMEMBERS %s:%s" (db_find)
FindKey(field, v) == field \o ":" \o v

-----------------------------------------------------------------------------
(* Key-Value store: the Redis commands the layer uses *)

EmptyStore == [x \in {} |-> NULL]

Put(st, key, v) == [x \in (DOMAIN st) \cup {key} |-> IF x = key THEN v ELSE st[x]]

Del(st, key) == [x \in (DOMAIN st) \ {key} |-> st[x]]

StrVal(v) == [t |-> "string", v |-> v, m |-> {}]

SetVal(m) == [t |-> "set", v |-> NULL, m |-> m]

IsString(st, key) == key \in DOMAIN st /\ st[key].t = "string"

IsSet(st, key) == key \in DOMAIN st /\ st[key].t = "set"

Members(st, key) == IF IsSet(st, key) THEN st[key].m ELSE {}

\* Replies
NilReply == [type |-> "NIL", str |-> NULL, elements |-> <<>>]

StatusReply == [type |-> "STATUS", str |-> NULL, elements |-> <<>>]

ErrorReply == [type |-> "ERROR", str |-> NULL, elements |-> <<>>]

IntegerReply(n) == [type |-> "INTEGER", str |-> NULL, elements |-> <<>>]

StringReply(v) == [type |-> "STRING", str |-> v, elements |-> <<>>]

ArrayReply(e) == [type |-> "ARRAY", str |-> NULL, elements |-> e]

RECURSIVE SortedSeq(_)
\* A set whose members are all integers is an intset: SMEMBERS lists it in
\* ascending order.
SortedSeq(S) ==
    IF S = {} THEN <<>>
    ELSE LET m == CHOOSE x \in S : \A y \in S : x <= y
         IN <<m>> \o SortedSeq(S \ {m})

\* Commands
Cmd(op, key, arg) == [op |-> op, key |-> key, arg |-> arg]

\* One command executed by the server: the new keyspace and the reply.
Exec(st, cmd) ==
    CASE cmd.op = "GET" ->
            [store |-> st,
             reply |-> IF cmd.key \notin DOMAIN st THEN NilReply
                       ELSE IF st[cmd.key].t = "string"
                            THEN StringReply(st[cmd.key].v)
                            ELSE ErrorReply]
      [] cmd.op = "SET" ->
            [store |-> Put(st, cmd.key, StrVal(cmd.arg)), reply |-> StatusReply]
      [] cmd.op = "SADD" ->
            IF IsString(st, cmd.key)
            THEN [store |-> st, reply |-> ErrorReply]
            ELSE [store |-> Put(st, cmd.key,
                                SetVal(Members(st, cmd.key) \cup {cmd.arg})),
                  reply |-> IntegerReply(IF cmd.arg \in Members(st, cmd.key)
                                         THEN 0 ELSE 1)]
      [] cmd.op = "SREM" ->
            IF IsString(st, cmd.key)
            THEN [store |-> st, reply |-> ErrorReply]
            ELSE IF cmd.arg \notin Members(st, cmd.key)
            THEN [store |-> st, reply |-> IntegerReply(0)]
            ELSE [store |-> IF Members(st, cmd.key) = {cmd.arg}
                            THEN Del(st, cmd.key)
                            ELSE Put(st, cmd.key,
                                     SetVal(Members(st, cmd.key) \ {cmd.arg})),
                  reply |-> IntegerReply(1)]
      [] cmd.op = "SMEMBERS" ->
            [store |-> st,
             reply |-> IF IsString(st, cmd.key) THEN ErrorReply
                       ELSE ArrayReply([i \in 1..Cardinality(Members(st, cmd.key))
                                          |-> ToString(SortedSeq(Members(st, cmd.key))[i])])]

RECURSIVE ExecAll(_, _)
\* A reply put in front of the replies of the commands that follow it.
PushReply(reply, rest) ==
    [store |-> rest.store, replies |-> <<reply>> \o rest.replies]

\* The rest of a written batch, after its first command gave `one`.
ExecRest(one, cmds) == PushReply(one.reply, ExecAll(one.store, cmds))

\* The server executes a written batch in order, one reply per command.
ExecAll(st, cmds) ==
    IF cmds = <<>> THEN [store |-> st, replies |-> <<>>]
    ELSE ExecRest(Exec(st, Head(cmds)), Tail(cmds))

-----------------------------------------------------------------------------
(* Key-Value client: the hiredis blocking context *)

\* The connection and keyspace as one value threaded through an operation.
\* net is "up", "down", "err", or inside a call "cut_read": the connection
\* breaks once the next written batch has been executed and its first reply
\* has arrived.  bad records that the running call has been handed an error
\* reply.
Conn(st, ob, ib, r, n, b) ==
    [store |-> st, obuf |-> ob, inbuf |-> ib, rd |-> r, net |-> n, bad |-> b]

\* redisAppendCommand: the formatted command goes to the output buffer only.
redisAppendCommand(s, cmd) == [s EXCEPT !.obuf = Append(@, cmd)]

\* The read half of redisGetReply, once the output buffer has been written and
\* executed (`done`): the first outstanding reply is returned.  A read takes
\* what has arrived: every outstanding reply (greedy) or just one.  When the
\* connection breaks after the first reply, the other replies never arrive.
ReadAfterFlush(s, done, greedy) ==
    IF s.inbuf \o done.replies = <<>>
    THEN [s |-> s, rc |-> "BLOCKED", reply |-> NULL]
    ELSE IF s.net = "cut_read"
    THEN [s |-> Conn(done.store, <<>>, <<>>, 0, "down",
                     s.bad \/ Head(s.inbuf \o done.replies).type = "ERROR"),
          rc |-> "REDIS_OK", reply |-> Head(s.inbuf \o done.replies)]
    ELSE [s |-> Conn(done.store, <<>>, Tail(s.inbuf \o done.replies),
                     IF greedy THEN Len(s.inbuf) + Len(done.replies) - 1 ELSE 0,
                     s.net,
                     s.bad \/ Head(s.inbuf \o done.replies).type = "ERROR"),
          rc |-> "REDIS_OK", reply |-> Head(s.inbuf \o done.replies)]

\* redisGetReply on a blocking context: a reply already in the reader buffer is
\* returned at once; otherwise the whole output buffer is written (the server
\* executes it) and the socket is read.  On a broken connection the write
\* fails: REDIS_ERR is returned, *reply is left as it was and the context
\* keeps its error.
redisGetReply(s, greedy) ==
    IF s.rd > 0
    THEN [s |-> [s EXCEPT !.inbuf = Tail(@), !.rd = @ - 1,
                          !.bad = @ \/ Head(s.inbuf).type = "ERROR"],
          rc |-> "REDIS_OK", reply |-> Head(s.inbuf)]
    ELSE IF s.net \in {"down", "err"}
    THEN [s |-> [s EXCEPT !.net = "err", !.inbuf = <<>>],
          rc |-> "REDIS_ERR", reply |-> NULL]
    ELSE ReadAfterFlush(s, ExecAll(s.store, s.obuf), greedy)

RECURSIVE processRedisReplies(_, _, _, _)
\* One iteration of processRedisReplies on the result r of redisGetReply.  On
\* failure freeReplyAndLogError(reply) frees the reply that the iteration
\* before has freed already (freed): a double free.
processReply(r, op_num, env, freed) ==
    IF r.rc = "REDIS_OK"
    THEN processRedisReplies(r.s, op_num - 1, env, TRUE)
    ELSE [s |-> r.s, ret |-> FALSE, crash |-> freed /\ env.ub = "crash"]

\* Reads op_num replies; any reply at all counts as success.  freed says that
\* reply points at a reply already freed.
processRedisReplies(s, op_num, env, freed) ==
    IF op_num = 0 THEN [s |-> s, ret |-> TRUE, crash |-> FALSE]
    ELSE processReply(redisGetReply(s, env.greedy), op_num, env, freed)

-----------------------------------------------------------------------------
(* Query Engine and Collection Store: the db_* functions *)

\* What an operation hands back: the connection and keyspace after it, its
\* return value, and whether the process crashed inside it.
Outcome(s, ret, crash) == [s |-> s, ret |-> ret, crash |-> crash]

\* return processRedisReplies(op_num);
ReturnOf(p) == Outcome(p.s, p.ret, p.crash)

\* The helpers that count commands: the connection, the return value and the
\* counter *op_num after the call.
Counted(s, ret, n) == [s |-> s, ret |-> ret, n |-> n]

\* The tail of db_find_one on the result r of redisGetReply.
find_one_reply(r) ==
    IF r.rc = "REDIS_OK"
    THEN IF r.reply.type # "STRING"
         THEN Outcome(r.s, NULL, FALSE)
         ELSE Outcome(r.s, cJSON_Parse(r.reply.str), FALSE)
    ELSE Outcome(r.s, NULL, FALSE)

\* db_find_one: GET collection:id, one reply read; a STRING reply is parsed.
\* env says how socket reads chunk the reply stream (greedy) and what
\* formatting a NULL string with %s does ("crash": strlen(NULL) faults;
\* "null": the bytes read as the text "(null)").
db_find_one(s, c, id, env) ==
    IF id = NullStr /\ env.ub = "crash" THEN Outcome(s, NULL, TRUE)
    ELSE find_one_reply(redisGetReply(
             redisAppendCommand(s, Cmd("GET",
                 PrimaryKeyStr(c, IF id = NullStr THEN "(null)" ELSE id), NULL)),
             env.greedy))

RECURSIVE store_tags_from(_, _, _, _, _, _)
\* The loop of store_tags from array index i on; n counts the commands added.
store_tags_from(s, c, items, i, id, n) ==
    IF i > Len(items) THEN Counted(s, TRUE, n)
    ELSE IF items[i].name = NULL THEN Counted(s, FALSE, n)
    ELSE IF items[i].name.type = "String"
    THEN store_tags_from(
             redisAppendCommand(s, Cmd("SADD",
                 TagAddKey(c, items[i].name.valuestring), id)),
             c, items, i + 1, id, n + 1)
    ELSE store_tags_from(s, c, items, i + 1, id, n)

\* store_tags: one SADD collection:tags:name per tag that has a string name.
store_tags(s, c, tags_obj, id, num_op) ==
    IF tags_obj # NULL
    THEN store_tags_from(s, c, tags_obj.items, 1, id, num_op)
    ELSE Counted(s, TRUE, num_op)

\* store_document: SET collection:id json (appended; the caller counts it).
store_document(s, c, doc, id) ==
    redisAppendCommand(s, Cmd("SET", PrimaryKeyInt(c, id), cJSON_PrintUnformatted(doc)))

\* A variant of pet_insert_after_tags that stores the document before it adds
\* the id to the membership set.
pet_insert_set_first(t, c, doc, env) ==
    IF ~t.ret THEN Outcome(t.s, FALSE, FALSE)
    ELSE ReturnOf(processRedisReplies(
             redisAppendCommand(
                 store_document(t.s, c, doc, doc.id.valueint),
                 Cmd("SADD", MembershipKey(c), doc.id.valueint)),
             t.n + 1 + 1, env, FALSE))

\* db_pet_insert after store_tags returned t: the membership SADD, the SET,
\* and the drain of op_num replies.
pet_insert_after_tags(t, c, doc, env) ==
    IF ~t.ret THEN Outcome(t.s, FALSE, FALSE)
    ELSE ReturnOf(processRedisReplies(
             store_document(
                 redisAppendCommand(t.s, Cmd("SADD", MembershipKey(c), doc.id.valueint)),
                 c, doc, doc.id.valueint),
             t.n + 1 + 1, env, FALSE))

\* db_pet_insert: id and status are required; the status SADD is appended
\* before the tags are looked at.
db_pet_insert(s, c, doc, env) ==
    IF doc.id = NULL THEN Outcome(s, FALSE, FALSE)
    ELSE IF doc.status = NULL THEN Outcome(s, FALSE, FALSE)
    ELSE pet_insert_after_tags(
             store_tags(
                 redisAppendCommand(s, Cmd("SADD",
                     StatusAddKey(c, doc.status.valuestring), doc.id.valueint)),
                 c, doc.tags, doc.id.valueint, 1),
             c, doc, env)

\* remove_document_from_field: SREM field_id:value id when the field exists.
remove_document_from_field(s, field_id, field_name, id, op_num) ==
    IF field_name # NULL
    THEN Counted(redisAppendCommand(s, Cmd("SREM",
                     FieldRemKey(field_id, field_name.valuestring), id)),
                 TRUE, op_num + 1)
    ELSE Counted(s, TRUE, op_num)

RECURSIVE remove_tags_from(_, _, _, _, _, _)
\* The loop of remove_document_from_tags from array index i on.
remove_tags_from(s, c, items, i, id, n) ==
    IF i > Len(items) THEN Counted(s, TRUE, n)
    ELSE IF items[i].name = NULL THEN Counted(s, FALSE, n)
    ELSE IF items[i].name.type = "String"
    THEN remove_tags_from(
             redisAppendCommand(s, Cmd("SREM",
                 TagRemKey(c, items[i].name.valuestring), id)),
             c, items, i + 1, id, n + 1)
    ELSE remove_tags_from(s, c, items, i + 1, id, n)

\* remove_document_from_tags: one SREM collection:name per named tag of doc.
remove_document_from_tags(s, c, doc, id, op_number) ==
    IF doc.tags # NULL
    THEN remove_tags_from(s, c, doc.tags.items, 1, id, op_number)
    ELSE Counted(s, TRUE, op_number)

\* remove_document_from_collection: SREM collection id.
remove_document_from_collection(s, c, id, op_num) ==
    Counted(redisAppendCommand(s, Cmd("SREM", CollectionKey(c), id)), TRUE, op_num + 1)

\* return processRedisReplies(op_num) at the end of a delete.
delete_drain(d, env) == ReturnOf(processRedisReplies(d.s, d.n, env, FALSE))

\* db_pet_delete after remove_document_from_tags returned b.
pet_delete_after_tags(b, c, doc, env) ==
    IF ~b.ret THEN Outcome(b.s, FALSE, FALSE)
    ELSE delete_drain(remove_document_from_collection(b.s, c, doc.id.valueint, b.n), env)

\* db_pet_delete after remove_document_from_field returned a.
pet_delete_after_field(a, c, doc, env) ==
    pet_delete_after_tags(
        remove_document_from_tags(a.s, c, doc, doc.id.valueint, a.n), c, doc, env)

\* db_pet_delete on the outcome f of db_find_one: the removals are computed
\* from the fetched document.
pet_delete_doc(f, c, env) ==
    IF f.crash THEN f
    ELSE IF f.ret = NULL THEN Outcome(f.s, FALSE, FALSE)
    ELSE IF f.ret.id = NULL THEN Outcome(f.s, FALSE, FALSE)
    ELSE pet_delete_after_field(
             remove_document_from_field(f.s, c, f.ret.status, f.ret.id.valueint, 0),
             c, f.ret, env)

\* db_pet_delete: the stored document is fetched, then one batch of SREMs.
db_pet_delete(s, c, id, env) == pet_delete_doc(db_find_one(s, c, id, env), c, env)

\* db_pet_update after db_pet_delete returned d.
pet_update_after_delete(d, c, update, env) ==
    IF d.crash THEN d
    ELSE IF ~d.ret THEN Outcome(d.s, FALSE, FALSE)
    ELSE db_pet_insert(d.s, c, update, env)

\* db_pet_update: delete by the id read as a string, then insert.
db_pet_update(s, c, update, env) ==
    IF update.id = NULL THEN Outcome(s, FALSE, FALSE)
    ELSE pet_update_after_delete(
             db_pet_delete(s, c, update.id.valuestring, env), c, update, env)

\* malloc(strlen(collection_name) + 20): the bytes of a key buffer.
KeyBufferSize(c) == Len(c) + 20

\* sprintf(key, ...) stays inside the buffer: the key and its terminator.
Fits(key, c) == Len(key) + 1 <= KeyBufferSize(c)

\* db_user_insert once SET and the membership SADD are appended (s2): the
\* username is checked only now.  The username key is formatted into the
\* key buffer; when it does not fit, sprintf writes past the allocation.
user_insert_after_set(s2, c, doc, env) ==
    IF doc.username = NULL THEN Outcome(s2, FALSE, FALSE)
    ELSE IF ~Fits(UsernameAddKey(c, doc.username.valuestring), c) /\ env.ub = "crash"
    THEN Outcome(s2, FALSE, TRUE)
    ELSE ReturnOf(processRedisReplies(
             redisAppendCommand(s2, Cmd("SADD",
                 UsernameAddKey(c, doc.username.valuestring), doc.id.valueint)),
             3, env, FALSE))

\* db_user_insert: SET and SADD are appended before the username is checked.
db_user_insert(s, c, doc, env) ==
    IF doc.id = NULL THEN Outcome(s, FALSE, FALSE)
    ELSE user_insert_after_set(
             redisAppendCommand(
                 redisAppendCommand(s, Cmd("SET", PrimaryKeyInt(c, doc.id.valueint),
                                           cJSON_PrintUnformatted(doc))),
                 Cmd("SADD", MembershipKey(c), doc.id.valueint)),
             c, doc, env)

\* db_user_delete after remove_document_from_field returned a.
user_delete_after_field(a, c, doc, env) ==
    delete_drain(remove_document_from_collection(a.s, c, doc.id.valueint, a.n), env)

\* A variant of user_delete_doc that leaves the username index alone.
user_delete_doc_keep_index(f, c, env) ==
    IF f.crash THEN f
    ELSE IF f.ret = NULL THEN Outcome(f.s, FALSE, FALSE)
    ELSE IF f.ret.id = NULL THEN Outcome(f.s, FALSE, FALSE)
    ELSE user_delete_after_field(Counted(f.s, TRUE, 0), c, f.ret, env)

\* db_user_delete on the outcome f of db_find_one.
user_delete_doc(f, c, env) ==
    IF f.crash THEN f
    ELSE IF f.ret = NULL THEN Outcome(f.s, FALSE, FALSE)
    ELSE IF f.ret.id = NULL THEN Outcome(f.s, FALSE, FALSE)
    ELSE user_delete_after_field(
             remove_document_from_field(f.s, UsernameFieldId(c), f.ret.username,
                                        f.ret.id.valueint, 0),
             c, f.ret, env)

\* db_user_delete.
db_user_delete(s, c, id, env) == user_delete_doc(db_find_one(s, c, id, env), c, env)

\* db_user_update after db_user_delete returned d.
user_update_after_delete(d, c, update, env) ==
    IF d.crash THEN d
    ELSE IF ~d.ret THEN Outcome(d.s, FALSE, FALSE)
    ELSE db_user_insert(d.s, c, update, env)

\* db_user_update.
db_user_update(s, c, update, env) ==
    IF update.id = NULL THEN Outcome(s, FALSE, FALSE)
    ELSE user_update_after_delete(
             db_user_delete(s, c, update.id.valuestring, env), c, update, env)

RECURSIVE find_append_smembers(_, _, _, _)
\* First loop of db_find: one SMEMBERS field:value per element of value.
find_append_smembers(s, field, values, i) ==
    IF i > Len(values) THEN s
    ELSE find_append_smembers(
             redisAppendCommand(s, Cmd("SMEMBERS",
                 FindKey(field, values[i].valuestring), NULL)),
             field, values, i + 1)

RECURSIVE find_append_gets(_, _, _, _)
\* Inner loop of db_find: one GET collection:member per element of a reply.
find_append_gets(s, c, elements, j) ==
    IF j > Len(elements) THEN s
    ELSE find_append_gets(
             redisAppendCommand(s, Cmd("GET", PrimaryKeyStr(c, elements[j]), NULL)),
             c, elements, j + 1)

\* What the second loop of db_find hands on: the connection, whether every
\* reply was read, the number of GETs appended, and whether the process
\* crashed.
FoundSets(s, ret, n, crash) == [s |-> s, ret |-> ret, n |-> n, crash |-> crash]

RECURSIVE find_drain_sets(_, _, _, _, _, _)
\* One iteration of the second loop of db_find on the result r of
\* redisGetReply: the GETs for the members are appended while later replies
\* are still unread.  On failure freeReplyAndLogError(reply) frees a reply the
\* iteration before has freed already (freed).
find_set_reply(r, c, op_num, op_getid_num, env, freed) ==
    IF r.rc = "REDIS_OK"
    THEN find_drain_sets(
             find_append_gets(r.s, c, r.reply.elements, 1),
             c, op_num - 1, op_getid_num + Len(r.reply.elements), env, TRUE)
    ELSE FoundSets(r.s, FALSE, op_getid_num, freed /\ env.ub = "crash")

\* Second loop of db_find: op_num replies are read.
find_drain_sets(s, c, op_num, op_getid_num, env, freed) ==
    IF op_num = 0 THEN FoundSets(s, TRUE, op_getid_num, FALSE)
    ELSE find_set_reply(redisGetReply(s, env.greedy), c, op_num, op_getid_num,
                        env, freed)

RECURSIVE find_drain_docs(_, _, _, _)
\* One iteration of the third loop of db_find on the result r of
\* redisGetReply: a STRING reply is parsed and added to the result array.  On
\* failure reply still points at the reply freed last: a double free.
find_doc_reply(r, op_getid_num, result, env) ==
    IF r.rc = "REDIS_OK"
    THEN find_drain_docs(r.s, op_getid_num - 1,
             IF r.reply.type = "STRING"
             THEN cJSON_AddItemToArray(result, cJSON_Parse(r.reply.str))
             ELSE result,
             env)
    ELSE Outcome(r.s, NULL, env.ub = "crash")

\* Third loop of db_find: op_getid_num replies are read.
find_drain_docs(s, op_getid_num, result, env) ==
    IF op_getid_num = 0 THEN Outcome(s, result, FALSE)
    ELSE find_doc_reply(redisGetReply(s, env.greedy), op_getid_num, result, env)

\* db_find after the second loop returned a.
find_after_sets(a, env) ==
    IF ~a.ret THEN Outcome(a.s, NULL, a.crash)
    ELSE find_drain_docs(a.s, a.n, cJSON_CreateArray, env)

\* db_find without the test for the operator member.
db_find_any_operator(s, c, query, env) ==
    IF query.field = NULL THEN Outcome(s, NULL, FALSE)
    ELSE IF query.value = NULL THEN Outcome(s, NULL, FALSE)
    ELSE IF query.value.type # "Array" THEN Outcome(s, NULL, FALSE)
    ELSE find_after_sets(
             find_drain_sets(
                 find_append_smembers(s, query.field.valuestring, query.value.items, 1),
                 c, Len(query.value.items), 0, env, FALSE),
             env)

\* db_find: operator, field and value must be present and value an array.
db_find(s, c, query, env) ==
    IF query.operator = NULL THEN Outcome(s, NULL, FALSE)
    ELSE IF query.field = NULL THEN Outcome(s, NULL, FALSE)
    ELSE IF query.value = NULL THEN Outcome(s, NULL, FALSE)
    ELSE IF query.value.type # "Array" THEN Outcome(s, NULL, FALSE)
    ELSE find_after_sets(
             find_drain_sets(
                 find_append_smembers(s, query.field.valuestring, query.value.items, 1),
                 c, Len(query.value.items), 0, env, FALSE),
             env)

\* db_find_all: SMEMBERS collection:collection is appended; op_getid_num is 0,
\* so the reply loop never runs and the empty array is returned.
db_find_all(s, c) ==
    Outcome(redisAppendCommand(s, Cmd("SMEMBERS", MembershipKey(c), NULL)),
            cJSON_CreateArray, FALSE)

-----------------------------------------------------------------------------
(* Requests: the arguments callers pass *)

Collections == {"pets", "users"}

\* Ids of request documents: JSON numbers, a JSON string, or no id member.
WireIds == {Absent, Num(1), Str("1")}

WireStatuses == {Absent, Str("available"), Str("sold")}

WireUsernames == {Absent, Str("bob"), Str("al")}

\* A tag object: with a string name, or without a name member.  "pets" and
\* "1" are names that also occur as a collection name and as an id.
WireTagObjects ==
    {[name |-> Str("dog")], [name |-> Str("pets")], [name |-> Str("1")],
     [name |-> Absent]}

SeqsUpTo(S, n) == UNION {[1..k -> S] : k \in 0..n}

WireTags ==
    {Absent} \cup {[k |-> "arr", a |-> a] : a \in SeqsUpTo(WireTagObjects, MaxTags) \ {<<>>}}

Wire(id, status, tags, username) ==
    [id |-> id, status |-> status, tags |-> tags, username |-> username]

\* Pet documents of requests: the valid ones (id, string status, optional
\* named tags), and one document for each way validation can reject.
ValidPetWires ==
    {Wire(id, st, tg, Absent) :
        id \in WireIds \ {Absent}, st \in WireStatuses \ {Absent},
        tg \in {x \in WireTags : x = Absent \/ \A i \in 1..Len(x.a) : x.a[i].name # Absent}}

InvalidPetWires ==
    {Wire(Absent, Str("available"), Absent, Absent),
     Wire(Num(1), Absent, Absent, Absent),
     Wire(Str("1"), Absent, Absent, Absent)}
    \cup {Wire(Num(1), Str("available"), tg, Absent) :
            tg \in {x \in WireTags \ {Absent} : x.a[Len(x.a)].name = Absent}}

PetWires == ValidPetWires \cup InvalidPetWires

ValidUserWires ==
    {Wire(id, Absent, Absent, u) :
        id \in WireIds \ {Absent}, u \in WireUsernames \ {Absent}}

InvalidUserWires ==
    {Wire(Absent, Absent, Absent, Str("bob")), Wire(Num(1), Absent, Absent, Absent)}

UserWires == ValidUserWires \cup InvalidUserWires

\* Id strings handed to db_find_one and the delete functions.
IdArgs == {"0", "1"}

\* Query objects handed to db_find: the index namespace with the values
\* that occur in it, and the malformed variants of a query.
QueryFields == {"pets:status", "pets:tags", "users:username"}

QueryValues(field) ==
    CASE field = "pets:status" -> {"available", "sold"}
      [] field = "pets:tags" -> {"dog"}
      [] field = "users:username" -> {"bob"}

ArrayOf(a) == [type |-> "Array", items |-> [i \in 1..Len(a) |-> cJSON_ParseItem(Str(a[i]))]]

Query(operator, field, value) == [operator |-> operator, field |-> field, value |-> value]

WellFormedQueries ==
    UNION {{Query(cJSON_ParseItem(Str("eq")), cJSON_ParseItem(Str(f)), ArrayOf(a)) :
                a \in SeqsUpTo(QueryValues(f), MaxValues) \ {<<>>}} : f \in QueryFields}

MalformedQueries ==
    {Query(NULL, cJSON_ParseItem(Str("pets:status")), ArrayOf(<<"available">>)),
     Query(cJSON_ParseItem(Str("eq")), NULL, ArrayOf(<<"available">>)),
     Query(cJSON_ParseItem(Str("eq")), cJSON_ParseItem(Str("pets:status")), NULL),
     Query(cJSON_ParseItem(Str("eq")), cJSON_ParseItem(Str("pets:status")),
           cJSON_ParseItem(Str("available")))}

Queries == WellFormedQueries \cup MalformedQueries

\* What is recorded of a query: which members it has and what its value is.
QueryShape(q) ==
    [operator |-> q.operator # NULL,
     field |-> q.field # NULL,
     value |-> IF q.value = NULL THEN "absent"
               ELSE IF q.value.type = "Array" THEN "array" ELSE "scalar"]

\* The collection a query's field belongs to.
CollectionOf(q) ==
    IF q.field # NULL /\ q.field.valuestring = "users:username" THEN "users" ELSE "pets"

-----------------------------------------------------------------------------
(* The state machine *)

Cur == Conn(store, obuf, inbuf, rd, net, FALSE)

Pending(s) == Len(s.obuf) + Len(s.inbuf)

Call(op, c, arg, ret) == [op |-> op, c |-> c, arg |-> arg, ret |-> ret]

\* How reads chunk matters only while replies are outstanding.
Chunkings == IF Pending(Cur) = 0 THEN {FALSE} ELSE BOOLEAN

\* What undefined behaviour does: "crash", the process faults; "null", it goes
\* on (a NULL string is formatted as "(null)", a second free goes unnoticed).
Outcomes == {"crash", "null"}

\* What happens to the connection during a call: nothing, the peer goes away
\* before the next write ("down"), or after the first reply of the next
\* written batch ("cut_read").  A connection that is gone stays gone.
Fates == IF net = "up" THEN {"up", "down", "cut_read"} ELSE {net}

\* A double free is only reached on a connection that fails.
OutcomesOn(fate) == IF fate = "up" THEN {"crash"} ELSE Outcomes

Env(greedy, ub) == [greedy |-> greedy, ub |-> ub]

\* The connection a call starts on.
Start(fate) == Conn(store, obuf, inbuf, rd, fate, FALSE)

\* main() once db_init has connected and MHD_start_daemon has returned the
\* daemon: redis_context points at a live handle.
MainServing ==
    [pc |-> "serving", redis_context |-> "valid", rc |-> "EXIT_SUCCESS",
     freed |-> 0, used |-> FALSE, served |-> 0]

\* No request is being served: *con_cls is NULL.
HttpIdle ==
    [pc |-> "idle", method |-> "", url |-> <<>>, query |-> FALSE,
     allocated |-> FALSE, data |-> <<>>, arrived |-> <<>>,
     route |-> "", handed |-> <<>>, queued |-> 0, status |-> 0]

\* The other process has no delete under way.
PeerIdle == [pc |-> "idle", c |-> "", id |-> NullStr, doc |-> NULL, at |-> 0, ret |-> FALSE]

\* After db_init: an empty keyspace, nothing buffered on the connection.
Init ==
    /\ store = EmptyStore
    /\ obuf = <<>>
    /\ inbuf = <<>>
    /\ rd = 0
    /\ net = "up"
    /\ sawErr = FALSE
    /\ alive = TRUE
    /\ last = Call("db_init", "", NULL, TRUE)
    /\ mutOnly = TRUE
    /\ live = {}
    /\ fresh = TRUE
    /\ ncalls = 0
    /\ peer = PeerIdle
    /\ main = MainServing
    /\ http = HttpIdle

\* What is recorded of a query: whether it returned a result or NULL.
Answered(o) == Outcome(o.s, o.ret # NULL, o.crash)

\* The id a caller names: the text of the id member of a document, or the
\* id string of a delete.
IdText(j) ==
    CASE j.k = "num" -> ToString(j.n)
      [] j.k = "str" -> j.s
      [] OTHER -> NullStr

\* The effect of one call on the state, with at most bound commands and
\* replies outstanding after it; kind says whether the call is an
\* "insert", an "update", a "delete" or a "query", and id is the id it names.
\* A call that crashes the process returns nothing: it is recorded as not
\* successful, and alive becomes FALSE.
ApplyWithin(bound, op, kind, c, arg, id, o) ==
    /\ alive
    /\ ncalls < MaxCalls
    /\ Pending(o.s) <= bound
    /\ store' = o.s.store
    /\ obuf' = o.s.obuf
    /\ inbuf' = o.s.inbuf
    /\ rd' = o.s.rd
    /\ net' = IF o.s.net = "cut_read" THEN "up" ELSE o.s.net
    /\ sawErr' = o.s.bad
    /\ alive' = ~o.crash
    /\ last' = Call(op, c, arg, ~o.crash /\ o.ret)
    /\ mutOnly' = (mutOnly /\ kind # "query" /\ ~o.crash /\ o.ret)
    /\ live' = IF kind = "query" \/ o.crash \/ ~o.ret THEN live
               ELSE IF kind = "delete" THEN live \ {<<c, id>>}
               ELSE live \cup {<<c, id>>}
    /\ fresh' = (fresh /\ ~(kind = "insert" /\ ~o.crash /\ o.ret /\ <<c, id>> \in live))
    /\ ncalls' = ncalls + 1
    /\ peer' = peer
    /\ main' = main
    /\ http' = http

Apply(op, kind, c, arg, id, o) == ApplyWithin(MaxPending, op, kind, c, arg, id, o)

PetInsert ==
    \E w \in PetWires, g \in Chunkings, f \in Fates :
        \E ub \in OutcomesOn(f) :
            Apply("db_pet_insert", "insert", "pets", w, IdText(w.id),
                  db_pet_insert(Start(f), "pets", cJSON_Parse(w), Env(g, ub)))

PetUpdate ==
    \E w \in PetWires, g \in Chunkings, f \in Fates :
        \E ub \in Outcomes :
            Apply("db_pet_update", "update", "pets", w, IdText(w.id),
                  db_pet_update(Start(f), "pets", cJSON_Parse(w), Env(g, ub)))

PetDelete ==
    \E id \in IdArgs, g \in Chunkings, f \in Fates :
        \E ub \in OutcomesOn(f) :
            Apply("db_pet_delete", "delete", "pets", id, id,
                  db_pet_delete(Start(f), "pets", id, Env(g, ub)))

UserInsert ==
    \E w \in UserWires, g \in Chunkings, f \in Fates :
        \E ub \in OutcomesOn(f) :
            Apply("db_user_insert", "insert", "users", w, IdText(w.id),
                  db_user_insert(Start(f), "users", cJSON_Parse(w), Env(g, ub)))

UserUpdate ==
    \E w \in UserWires, g \in Chunkings, f \in Fates :
        \E ub \in Outcomes :
            Apply("db_user_update", "update", "users", w, IdText(w.id),
                  db_user_update(Start(f), "users", cJSON_Parse(w), Env(g, ub)))

UserDelete ==
    \E id \in IdArgs, g \in Chunkings, f \in Fates :
        \E ub \in OutcomesOn(f) :
            Apply("db_user_delete", "delete", "users", id, id,
                  db_user_delete(Start(f), "users", id, Env(g, ub)))

FindOne ==
    \E c \in Collections, id \in IdArgs, g \in Chunkings, f \in Fates :
        Apply("db_find_one", "query", c, id, id,
              Answered(db_find_one(Start(f), c, id, Env(g, "crash"))))

Find ==
    \E q \in Queries, g \in Chunkings, f \in Fates :
        \E ub \in OutcomesOn(f) :
            Apply("db_find", "query", CollectionOf(q), QueryShape(q), NullStr,
                  Answered(db_find(Start(f), CollectionOf(q), q, Env(g, ub))))

FindAll ==
    \E c \in Collections :
        Apply("db_find_all", "query", c, NULL, NullStr, Answered(db_find_all(Cur, c)))

Next ==
    \/ PetInsert
    \/ PetUpdate
    \/ PetDelete
    \/ UserInsert
    \/ UserUpdate
    \/ UserDelete
    \/ FindOne
    \/ Find
    \/ FindAll

Spec == Init /\ [][Next]_vars
-----------------------------------------------------------------------------
(* Vocabulary of the properties *)

\* The integer ids under which request documents are stored.
DocIds == {cJSON_ParseItem(j).valueint : j \in WireIds \ {Absent}}

StatusValues == {w.s : w \in WireStatuses \ {Absent}}

TagValues == {o.name.s : o \in {x \in WireTagObjects : x.name # Absent}}

UsernameValues == {w.s : w \in WireUsernames \ {Absent}}

\* A call made to look at the database: the replies arrive one read at a time.
Peek == Env(FALSE, "crash")

\* The document in the primary slot of (c, id) in keyspace st, or NULL.
StoredDoc(st, c, id) ==
    IF IsString(st, PrimaryKeyInt(c, id))
    THEN cJSON_Parse(st[PrimaryKeyInt(c, id)].v)
    ELSE NULL

\* The names of the tags of a document.
TagNames(doc) ==
    IF doc = NULL \/ doc.tags = NULL THEN {}
    ELSE {doc.tags.items[i].name.valuestring :
            i \in {j \in 1..Len(doc.tags.items) : doc.tags.items[j].name # NULL}}

HasStatus(doc, v) == doc # NULL /\ doc.status # NULL /\ doc.status.valuestring = v

HasUsername(doc, v) == doc # NULL /\ doc.username # NULL /\ doc.username.valuestring = v

\* Every stored document has an integer id, as valid documents do.
IntegerIds ==
    \A c \in Collections, id \in DocIds :
        StoredDoc(store, c, id) # NULL => StoredDoc(store, c, id).id.type = "Number"

\* The query {operator: "eq", field: field, value: [v]}.
SingleQuery(field, v) ==
    Query(cJSON_ParseItem(Str("eq")), cJSON_ParseItem(Str(field)), ArrayOf(<<v>>))

\* The query {operator: "eq", field: field, value: v}.
ScalarQuery(field, v) ==
    Query(cJSON_ParseItem(Str("eq")), cJSON_ParseItem(Str(field)),
          cJSON_ParseItem(Str(v)))

\* Nothing is outstanding on the connection and it is up.
InSync == obuf = <<>> /\ inbuf = <<>> /\ net = "up"

\* A query result holds a document whose id is n.
HasDocWithId(result, n) ==
    /\ result # NULL
    /\ \E i \in 1..Len(result.items) :
           result.items[i].id # NULL /\ result.items[i].id.valueint = n

\* How many times a query result holds the document doc.
Occurrences(result, doc) ==
    IF result = NULL THEN 0
    ELSE Cardinality({i \in 1..Len(result.items) : result.items[i] = doc})

\* How many of the values of query q have id in their index set.
IndexedUnder(st, q, id) ==
    Cardinality({i \in 1..Len(q.value.items) :
        id \in Members(st, FindKey(q.field.valuestring,
                                   q.value.items[i].valuestring))})

\* The ids in the index sets that query q names.
Listed(st, q) ==
    UNION {Members(st, FindKey(q.field.valuestring, q.value.items[i].valuestring)) :
              i \in 1..Len(q.value.items)}

\* The integer an id string names.
IdArgInt(id) == CHOOSE n \in DocIds : ToString(n) = id

\* The connection after the step.
CurNext == Conn(store', obuf', inbuf', rd', net', FALSE)

\* The step is a call of op on collection c with argument arg that returned
\* success.
Succeeded(op, c, arg) ==
    /\ ncalls' = ncalls + 1
    /\ last' = Call(op, c, arg, TRUE)

-----------------------------------------------------------------------------
(* Properties *)

\* C1: after any sequence of successfully completed inserts, updates and
\* deletes of documents with integer ids, the primary slot collection:id exists if and only if id is in the
\* collection's membership set (the set db_find_all asks for).
C1_SlotIffMember ==
    (mutOnly /\ IntegerIds) =>
        \A c \in Collections, id \in DocIds :
            IsString(store, PrimaryKeyInt(c, id))
                <=> id \in Members(store, MembershipKey(c))

\* C2: after any sequence of successfully completed inserts, updates and
\* deletes of documents with integer ids (no insert over a live id), an id is
\* in the status,
\* tag and username index sets that match the document stored in its primary
\* slot, and in no other index set.
C2_IndexMatchesDocument ==
    (mutOnly /\ fresh /\ IntegerIds) =>
        \A id \in DocIds :
            /\ \A v \in StatusValues :
                   id \in Members(store, StatusAddKey("pets", v))
                       <=> HasStatus(StoredDoc(store, "pets", id), v)
            /\ \A n \in TagValues :
                   id \in Members(store, TagAddKey("pets", n))
                       <=> n \in TagNames(StoredDoc(store, "pets", id))
            /\ \A u \in UsernameValues :
                   id \in Members(store, UsernameAddKey("users", u))
                       <=> HasUsername(StoredDoc(store, "users", id), u)

\* C3: after a successful delete(collection, id) of a document with an integer
\* id the primary slot is gone: a following findOne(collection, id) reports NotFound.
C3_DeleteDestroys ==
    (last.op \in {"db_pet_delete", "db_user_delete"} /\ last.ret /\ IntegerIds) =>
        /\ ~IsString(store, PrimaryKeyStr(last.c, last.arg))
        /\ db_find_one(Cur, last.c, last.arg, Peek).ret = NULL

\* C4: after a successful insert(collection, d) of a document with an integer
\* id, findOne(collection, d.id) returns a document equal to d on every field.
C4_RoundTrip ==
    (last.op \in {"db_pet_insert", "db_user_insert"} /\ last.ret
        /\ last.arg.id.k = "num") =>
        db_find_one(Cur, last.c, IdText(last.arg.id), Peek).ret = cJSON_Parse(last.arg)

\* C5: when an operation has returned, no command it appended is still
\* unwritten and no reply is still unread on the connection.
C5_AppendThenDrain == alive => (obuf = <<>> /\ inbuf = <<>>)

\* C6: a successful delete(pets, id) of a pet whose stored status was s leaves
\* no document with that id in the result of find(pets, {pets:status, [s]}).
C6_DeleteLeavesStatusIndex ==
    [][\A id \in IdArgs, s \in StatusValues :
           (/\ HasStatus(StoredDoc(store, "pets", IdArgInt(id)), s)
            /\ IntegerIds
            /\ Succeeded("db_pet_delete", "pets", id))
           => ~HasDocWithId(
                  db_find(CurNext, "pets", SingleQuery("pets:status", s), Peek).ret,
                  IdArgInt(id))]_vars

\* C7: delete removes the id from the tag-index key insert added it to: a
\* successful delete(pets, id) of a pet stored with tag t leaves
\* find(pets, {pets:tags, [t]}) with no document of that id.
C7_DeleteLeavesTagIndex ==
    [][\A id \in IdArgs, n \in TagValues :
           (/\ n \in TagNames(StoredDoc(store, "pets", IdArgInt(id)))
            /\ IntegerIds
            /\ Succeeded("db_pet_delete", "pets", id))
           => /\ TagRemKey("pets", n) = TagAddKey("pets", n)
              /\ ~HasDocWithId(
                     db_find(CurNext, "pets", SingleQuery("pets:tags", n), Peek).ret,
                     IdArgInt(id))]_vars

\* C8: the membership set of a collection is the key named like the
\* collection: a successful insert adds the id to that key, a successful
\* delete leaves the id in no membership key, and findAll asks for that key.
C8_OneMembershipKey ==
    [][/\ \A c \in Collections, w \in PetWires \cup UserWires :
              (/\ w.id.k = "num"
               /\ \/ Succeeded("db_pet_insert", c, w)
                  \/ Succeeded("db_user_insert", c, w))
              => w.id.n \in Members(store', CollectionKey(c))
       /\ \A c \in Collections, id \in IdArgs :
              (/\ IntegerIds
               /\ \/ Succeeded("db_pet_delete", c, id)
                  \/ Succeeded("db_user_delete", c, id))
              => /\ IdArgInt(id) \notin Members(store', CollectionKey(c))
                 /\ IdArgInt(id) \notin Members(store', MembershipKey(c))
       /\ \A c \in Collections :
              Succeeded("db_find_all", c, NULL)
              => MembershipKey(c) = CollectionKey(c)]_vars

\* C9: on a connection with nothing outstanding, update(pets, d') over a
\* stored pet with another status succeeds; afterwards find by the old status does not hold the id and find by the new
\* status holds it.
C9_UpdateMovesStatus ==
    [][\A w \in ValidPetWires, s \in StatusValues :
           (/\ w.id.k = "num"
            /\ s # w.status.s
            /\ HasStatus(StoredDoc(store, "pets", w.id.n), s)
            /\ IntegerIds
            /\ obuf = <<>> /\ inbuf = <<>>
            /\ ncalls' = ncalls + 1
            /\ last'.op = "db_pet_update" /\ last'.arg = w)
           => /\ last'.ret
              /\ ~HasDocWithId(
                     db_find(CurNext, "pets", SingleQuery("pets:status", s), Peek).ret,
                     w.id.n)
              /\ HasDocWithId(
                     db_find(CurNext, "pets",
                             SingleQuery("pets:status", w.status.s), Peek).ret,
                     w.id.n)]_vars

\* C10: on a connection with nothing outstanding, findAll(collection) returns
\* the documents of all ids in the collection's membership set whose primary
\* slot holds a document.
C10_FindAllReturnsMembers ==
    \A c \in Collections, id \in DocIds :
        (/\ obuf = <<>> /\ inbuf = <<>>
         /\ IntegerIds
         /\ id \in Members(store, MembershipKey(c))
         /\ StoredDoc(store, c, id) # NULL)
        => \E i \in 1..Len(db_find_all(Cur, c).ret.items) :
               db_find_all(Cur, c).ret.items[i] = StoredDoc(store, c, id)

\* C11: an insert of a document that validation rejects (no id, no status for
\* a pet, no username for a user, a tag object without a name) returns failure
\* and applies none of its commands: the keyspace is unchanged and nothing is
\* left in the output buffer for a later operation to write.
C11_RejectedInsertWritesNothing ==
    [][\A w \in InvalidPetWires \cup InvalidUserWires :
           (/\ ncalls' = ncalls + 1
            /\ \/ last'.op = "db_pet_insert" /\ w \in InvalidPetWires
               \/ last'.op = "db_user_insert" /\ w \in InvalidUserWires
            /\ last'.arg = w)
           => /\ ~last'.ret
              /\ store' = store
              /\ obuf' = obuf]_vars

\* C12: a call whose batch gets fewer replies than it issued commands (the
\* connection fails inside it) returns failure, and no later call issues a
\* command on the failed connection handle.
C12_DesyncIsFatal ==
    [][ncalls' = ncalls + 1 =>
           /\ (net # "err" /\ net' = "err") => (alive' /\ ~last'.ret)
           /\ net = "err" => obuf' = obuf]_vars

\* C13: an insert or delete that starts with nothing outstanding on the
\* connection returns failure whenever a command of its batch gets an error
\* reply or no reply.
C13_StoreCommandFailed ==
    [][(/\ ncalls' = ncalls + 1
        /\ obuf = <<>> /\ inbuf = <<>>
        /\ last'.op \in {"db_pet_insert", "db_user_insert",
                         "db_pet_delete", "db_user_delete"}
        /\ sawErr' \/ (net # "err" /\ net' = "err"))
       => ~last'.ret]_vars

\* C14: on a connection with nothing outstanding, find with a scalar value
\* returns the documents of the ids in the index set of (field, value).
C14_ScalarFind ==
    \A v \in StatusValues, id \in DocIds :
        (/\ InSync
         /\ IntegerIds
         /\ id \in Members(store, FindKey("pets:status", v))
         /\ StoredDoc(store, "pets", id) # NULL)
        => HasDocWithId(
               db_find(Cur, "pets", ScalarQuery("pets:status", v), Peek).ret, id)

\* C15: find with an array of values returns the matches of each value one
\* after the other without de-duplication: a stored document whose id is in
\* the index sets of k of the values appears k times in the result.
C15_FindConcatenates ==
    \A q \in WellFormedQueries, id \in DocIds :
        (/\ net = "up"
         /\ IntegerIds
         /\ StoredDoc(store, CollectionOf(q), id) # NULL)
        => Occurrences(db_find(Cur, CollectionOf(q), q, Peek).ret,
                       StoredDoc(store, CollectionOf(q), id))
               = IndexedUnder(store, q, id)

\* C16: when an index set that a query names lists an id whose primary slot
\* is missing, find skips that id and still returns the documents of the
\* other listed ids.
C16_FindToleratesDrift ==
    \A c \in Collections, q \in WellFormedQueries :
        (/\ net = "up"
         /\ \E id \in Listed(store, q) : StoredDoc(store, c, id) = NULL)
        => /\ db_find(Cur, c, q, Peek).ret # NULL
           /\ \A id \in Listed(store, q) :
                  StoredDoc(store, c, id) # NULL
                      => Occurrences(db_find(Cur, c, q, Peek).ret,
                                     StoredDoc(store, c, id)) > 0

\* C17: find on a query without operator, without field or without value
\* returns failure (NULL) and issues no store command: the output buffer, the
\* reply stream and the keyspace are as before the call.
C17_InvalidQuery ==
    [][(/\ ncalls' = ncalls + 1
        /\ last'.op = "db_find"
        /\ \/ ~last'.arg.operator
           \/ ~last'.arg.field
           \/ last'.arg.value = "absent")
       => /\ alive' /\ ~last'.ret
          /\ obuf' = obuf /\ inbuf' = inbuf /\ rd' = rd
          /\ store' = store]_vars

\* C17 witness: find was called with a query that lacks its operator on a
\* database that holds documents, and returned failure.
C17_Witness ==
    /\ last.op = "db_find"
    /\ ~last.arg.operator /\ last.arg.field /\ last.arg.value = "array"
    /\ ~last.ret
    /\ store # EmptyStore

\* C18: for a well-formed query find returns an array, never NULL, and the
\* array is empty when no listed id has a document.
C18_FindNeverNull ==
    alive =>
        \A q \in WellFormedQueries :
            /\ db_find(Cur, CollectionOf(q), q, Peek).ret # NULL
            /\ (\A id \in Listed(store, q) :
                    StoredDoc(store, CollectionOf(q), id) = NULL)
               => db_find(Cur, CollectionOf(q), q, Peek).ret.items = <<>>

\* C19: with nothing outstanding on the connection, db_find_one returns one
\* thing for an id whose primary slot is absent and a different thing for an
\* id whose slot holds a text that cannot be decoded.
C19_NotFoundVsParseError ==
    (alive /\ InSync) =>
        \A c \in Collections, id \in {"1", "2"} :
            db_find_one(Conn(Del(store, PrimaryKeyStr(c, id)),
                             <<>>, <<>>, 0, "up", FALSE), c, id, Peek).ret
            # db_find_one(Conn(Put(store, PrimaryKeyStr(c, id),
                                   StrVal(Undecodable)),
                               <<>>, <<>>, 0, "up", FALSE), c, id, Peek).ret

\* The most tags on a document whose batch is compared command by command.
BatchTags == 2

\* Pet documents that pass validation, with up to BatchTags named tags of
\* different names.
BatchWires ==
    {Wire(Num(1), Str("available"), tg, Absent) :
        tg \in {Absent} \cup
               {[k |-> "arr", a |-> a] :
                    a \in {x \in SeqsUpTo({[name |-> Str("dog")], [name |-> Str("pets")]},
                                          BatchTags) \ {<<>>} :
                              \A i, j \in DOMAIN x : x[i] = x[j] => i = j}}}

\* The SADDs for the tag names of a document, in the order of its tags array.
TagBatch(c, doc) ==
    IF doc.tags = NULL THEN <<>>
    ELSE [i \in 1..Len(doc.tags.items) |->
             Cmd("SADD", TagAddKey(c, doc.tags.items[i].name.valuestring),
                 doc.id.valueint)]

\* The commands of one pet insert: status SADD, tag SADDs, membership SADD, SET.
PetBatch(c, doc) ==
    <<Cmd("SADD", StatusAddKey(c, doc.status.valuestring), doc.id.valueint)>>
    \o TagBatch(c, doc)
    \o <<Cmd("SADD", MembershipKey(c), doc.id.valueint),
         Cmd("SET", PrimaryKeyInt(c, doc.id.valueint), cJSON_PrintUnformatted(doc))>>

\* What insert left behind equals: the first k commands of `all` executed, the
\* others still in the output buffer, and n replies fewer outstanding.
BatchDrained(o, all, n) ==
    /\ o.ret /\ ~o.crash
    /\ \E k \in {0, Len(all)} :
           /\ o.s.store = ExecAll(store, SubSeq(all, 1, k)).store
           /\ o.s.obuf = SubSeq(all, k + 1, Len(all))
           /\ Len(o.s.inbuf) = Len(inbuf) + k - n

\* C20: a pet insert of a valid document appends, after what is already in the
\* output buffer, the status SADD, one SADD per tag name in array order, the
\* membership SADD and the SET (seen in the buffer when nothing can be
\* written); on a working connection it then reads exactly 1 + tags + 2
\* replies and returns true.
C20_PetInsertBatch ==
    alive =>
        \A w \in BatchWires, g \in Chunkings :
            LET doc == cJSON_Parse(w)
                batch == PetBatch("pets", doc)
            IN  /\ db_pet_insert(Start(IF net = "up" THEN "down" ELSE net), "pets",
                                 doc, Env(g, "null")).s.obuf
                   = obuf \o batch
                /\ Len(batch) = 1 + Cardinality(DOMAIN TagBatch("pets", doc)) + 2
                /\ net = "up" =>
                       BatchDrained(db_pet_insert(Cur, "pets", doc, Env(g, "null")),
                                    obuf \o batch, Len(batch))

\* C20 witness: a pet with a tag has been inserted on a working connection:
\* its tag index, membership set and primary slot exist and nothing is
\* outstanding.
C20_Witness ==
    /\ last.op = "db_pet_insert" /\ last.ret
    /\ last.arg.tags # Absent
    /\ TagAddKey("pets", "dog") \in DOMAIN store
    /\ MembershipKey("pets") \in DOMAIN store
    /\ PrimaryKeyInt("pets", 1) \in DOMAIN store
    /\ InSync

\* C21: an update that names an id with no document in its primary slot
\* returns false, leaves the keyspace as it was and appends no command other
\* than the GET of the lookup.
C21_UpdateNotFound ==
    [][(/\ ncalls' = ncalls + 1
        /\ last'.op \in {"db_pet_update", "db_user_update"}
        /\ last'.arg.id # Absent
        /\ ~IsString(store, PrimaryKeyStr(last'.c, IdText(last'.arg.id))))
       => /\ alive' /\ ~last'.ret
          /\ store' = store
          /\ \A i \in 1..Len(obuf') : i > Len(obuf) => obuf'[i].op = "GET"]_vars

\* The delete phase of an update of collection c with document w, run on the
\* connection as it is.
DeletePhase(c, w) ==
    IF c = "pets"
    THEN db_pet_delete(Cur, c, cJSON_Parse(w).id.valuestring, Env(FALSE, "null"))
    ELSE db_user_delete(Cur, c, cJSON_Parse(w).id.valuestring, Env(FALSE, "null"))

\* C22: when an update fails although its delete phase succeeded, the
\* document is lost: findOne on the id of the update reports nothing.
C22_UpdateLosesDocument ==
    [][(/\ ncalls' = ncalls + 1
        /\ last'.op \in {"db_pet_update", "db_user_update"}
        /\ alive' /\ ~last'.ret
        /\ InSync /\ net' = "up"
        /\ last'.arg.id # Absent
        /\ DeletePhase(last'.c, last'.arg).ret)
       => db_find_one(CurNext, last'.c, cJSON_Parse(last'.arg).id.valuestring,
                      Peek).ret = NULL]_vars

\* C23: a delete that names an id with no document in its primary slot
\* returns false, appends no removal command and leaves every key as it was.
C23_DeleteNotFound ==
    [][(/\ ncalls' = ncalls + 1
        /\ last'.op \in {"db_pet_delete", "db_user_delete"}
        /\ ~IsString(store, PrimaryKeyStr(last'.c, last'.arg)))
       => /\ alive' /\ ~last'.ret
          /\ store' = store
          /\ \A i \in 1..Len(obuf') : i > Len(obuf) => obuf'[i].op # "SREM"]_vars

-----------------------------------------------------------------------------
(* A second starting point: a store that has seen traffic *)

\* The number of calls followed from the second starting point.
TrafficCalls == 2

\* The connection after db_init and two calls that return success:
\* db_pet_insert of {id:1,status:"available"} and db_user_insert of
\* {id:1,username:"bob"}.
AfterInserts ==
    db_user_insert(
        db_pet_insert(Conn(EmptyStore, <<>>, <<>>, 0, "up", FALSE), "pets",
                      cJSON_Parse(Wire(Num(1), Str("available"), Absent, Absent)),
                      Env(FALSE, "crash")).s,
        "users", cJSON_Parse(Wire(Num(1), Absent, Absent, Str("bob"))),
        Env(FALSE, "crash")).s

\* The connection after a db_find_all("pets") that follows: its SMEMBERS is
\* still in the output buffer.
AfterTraffic == db_find_all(AfterInserts, "pets").s

InitAfterTraffic ==
    /\ store = AfterTraffic.store
    /\ obuf = AfterTraffic.obuf
    /\ inbuf = AfterTraffic.inbuf
    /\ rd = AfterTraffic.rd
    /\ net = "up"
    /\ sawErr = FALSE
    /\ alive = TRUE
    /\ last = Call("db_find_all", "pets", NULL, TRUE)
    /\ mutOnly = FALSE
    /\ live = {<<"pets", "1">>, <<"users", "1">>}
    /\ fresh = TRUE
    /\ ncalls = MaxCalls - TrafficCalls
    /\ peer = PeerIdle
    /\ main = MainServing
    /\ http = HttpIdle

SpecAfterTraffic == InitAfterTraffic /\ [][Next]_vars


\* The id string a delete, or the delete phase of an update, looks up.
LookupId(call) ==
    IF call.op \in {"db_pet_delete", "db_user_delete"} THEN call.arg
    ELSE cJSON_Parse(call.arg).id.valuestring

\* C24: the index entry that a successful user delete, or the delete phase of
\* a successful user update, removes is the one of the stored document: when
\* the primary slot held a document with username u, the id of that document
\* is no longer in the username index of u afterwards.
C24_RemovalFromStoredDocument ==
    [][\A u \in UsernameValues :
           (/\ ncalls' = ncalls + 1
            /\ last'.op \in {"db_user_delete", "db_user_update"}
            /\ last'.ret
            /\ LookupId(last') \in IdArgs
            /\ HasUsername(StoredDoc(store, "users", IdArgInt(LookupId(last'))), u))
           => StoredDoc(store, "users", IdArgInt(LookupId(last'))).id.valueint
              \notin Members(store', UsernameAddKey("users", u))]_vars


\* C25: the issue-and-drain sequences of different calls do not overlap on
\* the connection: a call that finds commands or replies of an earlier call
\* outstanding neither has them written nor reads them.
C25_SequencesDoNotOverlap ==
    [][(/\ ncalls' = ncalls + 1
        /\ alive'
        /\ obuf # <<>> \/ inbuf # <<>>)
       => /\ store' = store
          /\ inbuf' = inbuf
          /\ Len(obuf') >= Len(obuf)
          /\ SubSeq(obuf', 1, Len(obuf)) = obuf]_vars


\* C26: an update of a document with an integer id looks up, in its delete
\* phase, the key collection:id that its insert phase writes: the call
\* completes, and the GET it appends (seen in the output buffer when nothing
\* can be written) names that key.
C26_UpdateTargetsOneKey ==
    [][(/\ ncalls' = ncalls + 1
        /\ last'.op \in {"db_pet_update", "db_user_update"}
        /\ last'.arg.id.k = "num")
       => /\ alive'
          /\ Len(obuf') > Len(obuf)
             => obuf'[Len(obuf) + 1]
                = Cmd("GET", PrimaryKeyInt(last'.c, last'.arg.id.n), NULL)]_vars


-----------------------------------------------------------------------------
(* Two processes on one Redis: a delete that runs beside the calls above *)

\* The other process's connection: its own, with nothing outstanding.
PeerConn == Conn(store, <<>>, <<>>, 0, "up", FALSE)

\* The other process enters db_pet_delete or db_user_delete: db_find_one has
\* returned, the removal batch is not yet appended.
PeerFetch ==
    /\ peer.pc = "idle"
    /\ \E c \in Collections, id \in IdArgs :
           peer' = [pc |-> IF db_find_one(PeerConn, c, id, Peek).ret = NULL
                           THEN "done" ELSE "fetched",
                    c |-> c, id |-> id,
                    doc |-> db_find_one(PeerConn, c, id, Peek).ret,
                    at |-> ncalls, ret |-> FALSE]
    /\ UNCHANGED <<store, obuf, inbuf, rd, net, sawErr, alive, last, mutOnly,
                   live, fresh, ncalls, main, http>>

\* What the rest of the other process's delete does to its connection and
\* the keyspace.
PeerBatch ==
    IF peer.c = "pets"
    THEN pet_delete_doc(Outcome(PeerConn, peer.doc, FALSE), peer.c, Peek)
    ELSE user_delete_doc(Outcome(PeerConn, peer.doc, FALSE), peer.c, Peek)

\* The other process finishes its delete: the SREMs computed from the copy it
\* fetched are appended, written and their replies read.
PeerRemove ==
    /\ peer.pc = "fetched"
    /\ store' = PeerBatch.s.store
    /\ peer' = [peer EXCEPT !.pc = "done", !.ret = PeerBatch.ret]
    /\ UNCHANGED <<obuf, inbuf, rd, net, sawErr, alive, last, mutOnly, live,
                   fresh, ncalls, main, http>>

InitTwoProcesses ==
    /\ store = AfterInserts.store
    /\ obuf = AfterInserts.obuf
    /\ inbuf = AfterInserts.inbuf
    /\ rd = AfterInserts.rd
    /\ net = "up"
    /\ sawErr = FALSE
    /\ alive = TRUE
    /\ last = Call("db_user_insert", "users",
                   Wire(Num(1), Absent, Absent, Str("bob")), TRUE)
    /\ mutOnly = TRUE
    /\ live = {<<"pets", "1">>, <<"users", "1">>}
    /\ fresh = TRUE
    /\ ncalls = MaxCalls - TrafficCalls
    /\ peer = PeerIdle
    /\ main = MainServing
    /\ http = HttpIdle

NextTwoProcesses ==
    \/ Next
    \/ PeerFetch
    \/ PeerRemove

SpecTwoProcesses == InitTwoProcesses /\ [][NextTwoProcesses]_vars

\* Invariant (2) for user id: it is in the username index of u exactly when
\* the document in its primary slot has username u.
UserIndexMatches(st, id) ==
    \A u \in UsernameValues :
        id \in Members(st, UsernameAddKey("users", u))
            <=> HasUsername(StoredDoc(st, "users", id), u)

\* Between the other process's fetch and now, this process has inserted the
\* document the other process is deleting.
InsertedSinceFetch ==
    /\ ncalls > peer.at
    /\ last.op = "db_user_insert" /\ last.ret
    /\ peer.c = "users"
    /\ last.arg.id.k = "num"
    /\ IdText(last.arg.id) = peer.id

\* C27: two mutations of one user id on separate connections interleave
\* between the read and the removal batch of one of them: when a delete
\* has fetched the document, another process then inserts the id with the
\* same username, and the delete then runs its removal batch, the index no
\* longer matches the stored document.
C27_RaceBreaksIndex ==
    [][(/\ peer.pc = "fetched" /\ peer'.pc = "done" /\ peer'.ret
        /\ InsertedSinceFetch
        /\ UserIndexMatches(store, IdArgInt(peer.id))
        /\ StoredDoc(store, "users", IdArgInt(peer.id)) # NULL
        /\ StoredDoc(store, "users", IdArgInt(peer.id)).username
           = peer.doc.username)
       => ~UserIndexMatches(store', IdArgInt(peer.id))]_vars

\* C27 witness: the interleaving has happened and left user 1 stored with a
\* username whose index does not hold it.
C27_Witness ==
    /\ peer.pc = "done" /\ peer.ret /\ peer.c = "users"
    /\ InsertedSinceFetch
    /\ ~UserIndexMatches(store, IdArgInt(peer.id))
    /\ HasUsername(StoredDoc(store, "users", 1), "bob")
    /\ 1 \notin Members(store, UsernameAddKey("users", "bob"))


\* C28: on a working connection, whatever calls were made before, findOne
\* returns the document stored in the primary slot it names.
C28_FindOneReadsItsSlot ==
    (alive /\ net = "up") =>
        \A c \in Collections, id \in IdArgs :
            IsString(store, PrimaryKeyStr(c, id))
                => db_find_one(Cur, c, id, Peek).ret
                   = cJSON_Parse(store[PrimaryKeyStr(c, id)].v)


RECURSIVE DocsOf(_, _, _)
\* The documents in the primary slots of the ids of a SMEMBERS reply, in the
\* order of the reply; an id without a slot gives nothing.
DocsOf(st, c, ids) ==
    IF ids = <<>> THEN <<>>
    ELSE (IF IsString(st, PrimaryKeyInt(c, Head(ids)))
          THEN <<cJSON_Parse(st[PrimaryKeyInt(c, Head(ids))].v)>>
          ELSE <<>>)
         \o DocsOf(st, c, Tail(ids))

RECURSIVE MatchesFrom(_, _, _, _)
\* The matches of value[i], then those of value[i+1], and so on.
MatchesFrom(st, c, q, i) ==
    IF i > Len(q.value.items) THEN <<>>
    ELSE DocsOf(st, c, SortedSeq(Members(st,
                    FindKey(q.field.valuestring, q.value.items[i].valuestring))))
         \o MatchesFrom(st, c, q, i + 1)

\* C29: on a working connection the replies db_find reads are in issue
\* order: the SMEMBERS replies first, then the reply of each GET in the order
\* the GETs were appended, so the result is the matches of value[0] followed
\* by those of value[1], and so on.
C29_FindKeepsIssueOrder ==
    (alive /\ net = "up") =>
        \A q \in WellFormedQueries :
            /\ db_find(Cur, CollectionOf(q), q, Peek).ret # NULL
            /\ db_find(Cur, CollectionOf(q), q, Peek).ret.items
               = MatchesFrom(store, CollectionOf(q), q, 1)


\* The status queries: {operator: "eq", field: "pets:status", value: vs}.
StatusQueries == {q \in WellFormedQueries : q.field.valuestring = "pets:status"}

\* C30: after any sequence of successful inserts, updates and deletes of
\* documents with integer ids (no insert over a live id), every document
\* that find by status returns is the document stored under its id and has
\* one of the statuses asked for.
C30_FindIsSound ==
    (alive /\ mutOnly /\ fresh /\ IntegerIds /\ net = "up") =>
        \A q \in StatusQueries :
            LET result == db_find(Cur, "pets", q, Peek).ret
            IN  result # NULL =>
                    \A i \in 1..Len(result.items) :
                        /\ result.items[i]
                           = StoredDoc(store, "pets", result.items[i].id.valueint)
                        /\ \E k \in 1..Len(q.value.items) :
                               HasStatus(result.items[i], q.value.items[k].valuestring)

\* The ids that a mutating call names: the id argument of a delete, the id
\* member of the document of an insert (as the integer the code reads from
\* it), and for an update both readings of the id member.
NamedIds(call) ==
    IF call.op \in {"db_pet_delete", "db_user_delete"}
    THEN {n \in DocIds : ToString(n) = call.arg}
    ELSE IF call.arg.id = Absent THEN {}
    ELSE {cJSON_Parse(call.arg).id.valueint}
         \cup (IF call.op \in {"db_pet_update", "db_user_update"}
               THEN {n \in DocIds : ToString(n) = IdText(call.arg.id)}
               ELSE {})

\* The primary slot of (c, id) is the same in keyspaces st and nx.
SameSlot(st, nx, c, id) ==
    /\ (PrimaryKeyInt(c, id) \in DOMAIN st) = (PrimaryKeyInt(c, id) \in DOMAIN nx)
    /\ PrimaryKeyInt(c, id) \in DOMAIN st => st[PrimaryKeyInt(c, id)] = nx[PrimaryKeyInt(c, id)]

\* C31: an insert, update or delete of document id in collection c leaves
\* the primary slot of every other (collection, id) pair as it was, and
\* leaves every other id in or out of every membership set and index set as
\* it was.
C31_Frame ==
    [][(/\ ncalls' = ncalls + 1
        /\ last'.op \in {"db_pet_insert", "db_pet_update", "db_pet_delete",
                         "db_user_insert", "db_user_update", "db_user_delete"})
       => /\ \A c \in Collections, id \in DocIds :
                 (c # last'.c \/ id \notin NamedIds(last'))
                     => SameSlot(store, store', c, id)
          /\ \A key \in (DOMAIN store) \cup (DOMAIN store'), id \in DocIds :
                 id \notin NamedIds(last')
                     => (id \in Members(store, key)) = (id \in Members(store', key))]_vars

\* The index-set keys that the insert of document doc into collection c
\* addresses: status and tags for a pet, username for a user.
InsertIndexKeys(c, doc) ==
    IF c = "pets"
    THEN {StatusAddKey(c, v) : v \in {x \in StatusValues : HasStatus(doc, x)}}
         \cup {TagAddKey(c, name) : name \in TagNames(doc)}
    ELSE {UsernameAddKey(c, v) : v \in {x \in UsernameValues : HasUsername(doc, x)}}

\* The index-set keys that the delete of the stored document doc of
\* collection c addresses.
DeleteIndexKeys(c, doc) ==
    IF c = "pets"
    THEN {FieldRemKey(c, v) : v \in {x \in StatusValues : HasStatus(doc, x)}}
         \cup {TagRemKey(c, name) : name \in TagNames(doc)}
    ELSE {FieldRemKey(UsernameFieldId(c), v) :
              v \in {x \in UsernameValues : HasUsername(doc, x)}}

\* The membership-set keys of collection c: the one insert adds to and the one
\* delete removes from.
MembershipKeys(c) == {MembershipKey(c), CollectionKey(c)}

\* The primary-slot keys of all documents.
PrimaryKeys == {PrimaryKeyInt(c, id) : c \in Collections, id \in DocIds}

\* C32: keys of different roles never coincide: for every stored document,
\* no primary-slot key is a membership-set key or an index-set key that the
\* insert or the delete of the document addresses, and no such index-set key
\* is the membership-set key of a collection.
C32_RolesDistinct ==
    \A c \in Collections, id \in DocIds :
        StoredDoc(store, c, id) # NULL =>
            LET index == InsertIndexKeys(c, StoredDoc(store, c, id))
                             \cup DeleteIndexKeys(c, StoredDoc(store, c, id))
                member == UNION {MembershipKeys(d) : d \in Collections}
            IN  /\ PrimaryKeys \cap (member \cup index) = {}
                /\ index \cap {MembershipKey(d) : d \in Collections} = {}

\* C33: insert is idempotent on the store: when a valid document has been
\* inserted with success and is inserted again in the next call, with
\* success, the second insert leaves every key as the first left it.
C33_InsertIdempotent ==
    [][(/\ ncalls' = ncalls + 1
        /\ last.op \in {"db_pet_insert", "db_user_insert"}
        /\ last.ret
        /\ last.arg \in ValidPetWires \cup ValidUserWires
        /\ last' = last)
       => store' = store]_vars

\* More outstanding replies than the shortest insert reads.
BacklogPending == 3

\* The connection after db_find_all has been called BacklogPending times and
\* one db_find_one has then read its reply: the read took every reply that
\* had arrived, so the replies of the SMEMBERS commands wait in the reader.
AfterListings ==
    db_find_one(db_find_all(db_find_all(db_find_all(
                    Conn(EmptyStore, <<>>, <<>>, 0, "up", FALSE),
                    "pets").s, "pets").s, "pets").s,
                "pets", "1", Env(TRUE, "crash")).s

InitAfterListings ==
    /\ store = AfterListings.store
    /\ obuf = AfterListings.obuf
    /\ inbuf = AfterListings.inbuf
    /\ rd = AfterListings.rd
    /\ net = "up"
    /\ sawErr = FALSE
    /\ alive = TRUE
    /\ last = Call("db_find_one", "pets", "1", FALSE)
    /\ mutOnly = FALSE
    /\ live = {}
    /\ fresh = TRUE
    /\ ncalls = MaxCalls - TrafficCalls
    /\ peer = PeerIdle
    /\ main = MainServing
    /\ http = HttpIdle

\* The insert calls on a connection with that many replies outstanding.  The
\* user documents include one whose username is longer than the key buffer
\* allows for.
PetInsertBacklog ==
    \E w \in PetWires, g \in Chunkings, f \in Fates :
        \E ub \in OutcomesOn(f) :
            ApplyWithin(BacklogPending, "db_pet_insert", "insert", "pets", w, IdText(w.id),
                        db_pet_insert(Start(f), "pets", cJSON_Parse(w), Env(g, ub)))

BacklogUserWires ==
    UserWires \cup {Wire(Num(1), Absent, Absent, Str("administrator"))}

UserInsertBacklog ==
    \E w \in BacklogUserWires, g \in Chunkings, f \in Fates :
        \E ub \in Outcomes :
            ApplyWithin(BacklogPending, "db_user_insert", "insert", "users", w, IdText(w.id),
                        db_user_insert(Start(f), "users", cJSON_Parse(w), Env(g, ub)))

NextAfterListings == PetInsertBacklog \/ UserInsertBacklog

SpecAfterListings == InitAfterListings /\ [][NextAfterListings]_vars

-----------------------------------------------------------------------------
(* HTTP front end: request_handler and the route handlers it calls *)

\* Requests one connection carries before the model stops it.
MaxRequests == 2

\* Upload chunks of one request, and units in one chunk.
MaxChunks == 2

MaxChunkLen == 2

\* A request body is a sequence of units: a brace, one member of the JSON
\* object ("u:" a username member, "p:" a password member), or a zero byte.
NulByte == "NUL"

MemberBytes == {"u:admin", "u:bob", "u:7", "p:admin", "p:x"}

BodyBytes == {"{", "}", NulByte} \cup MemberBytes

MemberName(b) == IF b \in {"u:admin", "u:bob", "u:7"} THEN "username" ELSE "password"

MemberValue(b) ==
    CASE b = "u:admin" -> Str("admin")
      [] b = "u:bob" -> Str("bob")
      [] b = "u:7" -> Num(7)
      [] b = "p:admin" -> Str("admin")
      [] OTHER -> Str("x")

Chunks == UNION {[1..n -> BodyBytes] : n \in 1..MaxChunkLen}

\* strlen: the bytes in front of the first zero byte.
strlen(data) ==
    IF \E i \in 1..Len(data) : data[i] = NulByte
    THEN (CHOOSE i \in 1..Len(data) :
              data[i] = NulByte /\ \A j \in 1..(i - 1) : data[j] # NulByte) - 1
    ELSE Len(data)

\* The string a char* names: what a callee reads of the buffer.
CString(data) == SubSeq(data, 1, strlen(data))

\* The accumulation step of request_handler: realloc to strlen(data) + size
\* + 1 bytes, memcpy of the chunk at strlen(data), and a terminator.
Accumulate(data, chunk) == SubSeq(data, 1, strlen(data)) \o chunk \o <<NulByte>>

RECURSIVE Concat(_)
\* All chunks in arrival order.
Concat(chunks) == IF chunks = <<>> THEN <<>> ELSE Head(chunks) \o Concat(Tail(chunks))

\* URLs, character by character.
V2Pet == <<"/", "v", "2", "/", "p", "e", "t">>

V2User == <<"/", "v", "2", "/", "u", "s", "e", "r">>

FindByTags == V2Pet \o <<"/", "f", "i", "n", "d", "B", "y", "T", "a", "g", "s">>

FindByStatus == V2Pet \o <<"/", "f", "i", "n", "d", "B", "y", "S", "t", "a", "t", "u", "s">>

UserLogin == V2User \o <<"/", "l", "o", "g", "i", "n">>

UserLogout == V2User \o <<"/", "l", "o", "g", "o", "u", "t">>

Urls ==
    {V2Pet, V2Pet \o <<"/", "1">>, FindByTags, FindByStatus,
     V2User, V2User \o <<"/", "b", "o", "b">>, UserLogin, UserLogout}

Methods == {"GET", "POST", "PUT", "DELETE"}

\* strncmp(a, b, n) == 0
strncmp0(a, b, n) ==
    SubSeq(a, 1, IF n < Len(a) THEN n ELSE Len(a))
        = SubSeq(b, 1, IF n < Len(b) THEN n ELSE Len(b))

\* url + k: the rest of the string; past the terminator the pointer names
\* whatever memory follows the URL.
Offset(url, k) ==
    IF k <= Len(url) THEN {SubSeq(url, k + 1, Len(url))} ELSE {<<>>, <<"?">>}

\* The branch of request_handler that a method and URL select, in the order
\* of the if-else chain.
Route(method, url) ==
    IF method = "POST" /\ url = V2Pet THEN "post_pet"
    ELSE IF method = "PUT" /\ url = V2Pet THEN "put_pet"
    ELSE IF strncmp0(url, V2Pet \o <<"/">>, 7) /\ method = "DELETE" THEN "delete_pet"
    ELSE IF url = FindByTags /\ method = "GET" THEN "find_by_tags"
    ELSE IF url = FindByStatus /\ method = "GET" THEN "find_by_status"
    ELSE IF strncmp0(url, V2Pet \o <<"/">>, 7) /\ method = "GET" THEN "get_pet"
    ELSE IF url = V2User /\ method = "POST" THEN "post_user"
    ELSE IF strncmp0(url, V2User \o <<"/">>, 9) /\ method = "GET" THEN "get_user"
    ELSE IF url = V2User /\ method = "GET" THEN "get_users"
    ELSE IF strncmp0(url, V2User \o <<"/">>, 9) /\ method = "DELETE" THEN "delete_user"
    ELSE IF url = UserLogin /\ method = "POST" THEN "login"
    ELSE IF url = UserLogout /\ method = "POST" THEN "logout"
    ELSE "not_found"

\* The routes that accumulate the upload in *con_cls.
BodyRoutes == {"post_pet", "put_pet", "post_user", "login"}

\* A char* that is NULL, as an argument string.
NullArg == <<NullStr>>

\* MHD_lookup_connection_value: the value of the query argument, or NULL.
QueryArg(given) == IF given THEN <<"a">> ELSE NullArg

\* What the branch hands its route handler.
ArgsOf(route, url, data, given) ==
    IF route \in BodyRoutes THEN {CString(data)}
    ELSE IF route = "delete_pet" THEN Offset(url, 7)
    ELSE IF route = "get_pet" THEN Offset(url, 8)
    ELSE IF route \in {"get_user", "delete_user"} THEN Offset(url, 9)
    ELSE IF route \in {"find_by_tags", "find_by_status", "logout"} THEN {QueryArg(given)}
    ELSE {<<>>}

\* bson_new_from_json, bson_init_from_json: the text is one JSON object.
bson_init_from_json(text) ==
    /\ Len(text) >= 2
    /\ text[1] = "{"
    /\ text[Len(text)] = "}"
    /\ \A i \in 2..(Len(text) - 1) : text[i] \in MemberBytes

\* The members of the parsed document, in order.
DocOf(text) == SubSeq(text, 2, Len(text) - 1)

bson_has_field(doc, name) == \E i \in 1..Len(doc) : MemberName(doc[i]) = name

\* bson_iter_init_find: the iterator stands on the first member of that name.
bson_iter_init_find(doc, name) ==
    doc[CHOOSE i \in 1..Len(doc) :
            MemberName(doc[i]) = name /\ \A j \in 1..(i - 1) : MemberName(doc[j]) # name]

\* BSON_ITER_HOLDS_UTF8
HoldsUtf8(member) == MemberValue(member).k = "str"

\* bson_oid_is_valid: 24 hexadecimal digits.
bson_oid_is_valid(id) ==
    /\ Len(id) = 24
    /\ \A i \in 1..Len(id) :
           id[i] \in {"0", "1", "2", "3", "4", "5", "6", "7", "8", "9",
                      "a", "b", "c", "d", "e", "f", "A", "B", "C", "D", "E", "F"}

\* handle_post_user_login: both finds run in one condition on one iterator,
\* so when username is read the iterator stands on the password member.
handle_post_user_login(json_payload) ==
    IF ~bson_init_from_json(json_payload) THEN "EXIT_FAILURE"
    ELSE IF ~bson_has_field(DocOf(json_payload), "username")
            \/ ~bson_has_field(DocOf(json_payload), "password") THEN "EXIT_FAILURE"
    ELSE IF /\ HoldsUtf8(bson_iter_init_find(DocOf(json_payload), "username"))
            /\ HoldsUtf8(bson_iter_init_find(DocOf(json_payload), "password"))
         THEN LET username == MemberValue(bson_iter_init_find(DocOf(json_payload), "password")).s
                  password == MemberValue(bson_iter_init_find(DocOf(json_payload), "password")).s
              IN  IF username = "admin" /\ password = "admin"
                  THEN "EXIT_SUCCESS" ELSE "EXIT_FAILURE"
         ELSE "EXIT_FAILURE"

\* What serving a request can come to: the status of the response, whether a
\* database function was called, whether the process crashed instead.
Served(status, db) == [status |-> status, db |-> db, crash |-> FALSE]

Crashed == [status |-> 0, db |-> FALSE, crash |-> TRUE]

\* The route handlers of handlers.c as request_handler sees them.  The
\* database functions decide between 200 and 500 where both are given.
HandlerOutcomes(route, arg) ==
    IF route \in {"post_pet", "post_user"}
    THEN IF bson_init_from_json(arg) THEN {Served(200, TRUE), Served(500, TRUE)}
         ELSE {Served(500, FALSE)}
    ELSE IF route = "put_pet"
    THEN IF /\ bson_init_from_json(arg)
            /\ bson_has_field(DocOf(arg), "id")
         THEN {Served(200, TRUE), Served(500, TRUE)}
         ELSE {Served(500, FALSE)}
    ELSE IF route \in {"delete_pet", "delete_user"}
    THEN IF bson_oid_is_valid(arg) THEN {Served(200, TRUE), Served(500, TRUE)}
         ELSE {Served(500, FALSE)}
    ELSE IF route = "get_pet"
    THEN IF bson_oid_is_valid(arg) THEN {Served(200, TRUE)} ELSE {Served(500, FALSE)}
    ELSE IF route \in {"find_by_tags", "find_by_status"}
    THEN IF arg = NullArg THEN {Crashed} ELSE {Served(200, TRUE)}
    ELSE IF route \in {"get_user", "get_users"} THEN {Served(200, TRUE)}
    ELSE IF route = "login"
    THEN {Served(IF handle_post_user_login(arg) = "EXIT_SUCCESS" THEN 200 ELSE 500, FALSE)}
    ELSE IF route = "logout" THEN {Served(200, FALSE)}
    ELSE {Served(404, FALSE)}

\* The variables of the database layer.
dbvars == <<store, obuf, inbuf, rd, net, sawErr, alive, last, mutOnly, live, fresh, ncalls, peer>>

\* The first call of request_handler for a request: *con_cls is NULL, one
\* zeroed byte is allocated and MHD_YES returned.
FirstCallback ==
    /\ main.pc = "serving"
    /\ http.pc \in {"idle", "done"}
    /\ main.served < MaxRequests
    /\ \E method \in Methods, url \in Urls, given \in BOOLEAN :
           /\ given => Route(method, url) \in {"find_by_tags", "find_by_status", "logout"}
           /\ http' = [HttpIdle EXCEPT !.pc = "open", !.method = method, !.url = url,
                                       !.query = given, !.allocated = TRUE,
                                       !.data = <<NulByte>>]
    /\ main' = [main EXCEPT !.served = @ + 1]
    /\ UNCHANGED dbvars

\* The branch runs its route handler and queues the response; chunks are the
\* upload chunks that have arrived by then.  The body routes free the buffer.
Respond(chunks) ==
    \E arg \in ArgsOf(Route(http.method, http.url), http.url, http.data, http.query) :
        \E o \in HandlerOutcomes(Route(http.method, http.url), arg) :
            /\ http' = [http EXCEPT !.pc = IF o.crash THEN "crashed" ELSE "done",
                                    !.arrived = chunks,
                                    !.route = Route(http.method, http.url),
                                    !.handed = arg,
                                    !.queued = IF o.crash THEN @ ELSE @ + 1,
                                    !.status = o.status,
                                    !.allocated =
                                        IF Route(http.method, http.url) \in BodyRoutes
                                        THEN FALSE ELSE @]
            /\ main' = [main EXCEPT !.pc = IF o.crash THEN "crashed" ELSE @,
                                    !.used = @ \/ (o.db /\ main.redis_context # "valid")]
            /\ UNCHANGED dbvars

\* request_handler called with upload data: a body route appends the chunk to
\* the buffer and returns MHD_YES; every other branch ignores the data and
\* answers at once.
UploadChunk ==
    /\ main.pc = "serving"
    /\ http.pc = "open"
    /\ http.method \in {"POST", "PUT"}
    /\ Len(http.arrived) < MaxChunks
    /\ \E chunk \in Chunks :
           IF Route(http.method, http.url) \in BodyRoutes
           THEN /\ http' = [http EXCEPT !.data = Accumulate(@, chunk),
                                        !.arrived = Append(@, chunk)]
                /\ UNCHANGED <<main, dbvars>>
           ELSE Respond(Append(http.arrived, chunk))

\* request_handler called with upload_data_size 0 after the first call.
LastCallback ==
    /\ main.pc = "serving"
    /\ http.pc = "open"
    /\ Respond(http.arrived)

-----------------------------------------------------------------------------
(* main(): db_init, MHD_start_daemon, db_cleanup *)

\* main() before db_init: redis_context is NULL.
MainStart ==
    [pc |-> "start", redis_context |-> "NULL", rc |-> "", freed |-> 0,
     used |-> FALSE, served |-> 0]

\* How redisConnectWithTimeout and AUTH can end.
ConnectOutcomes == {"connected", "no_context", "context_err", "auth_error"}

\* db_init: on a context with err set and on a rejected AUTH the handle is
\* freed and redis_context keeps pointing at it ("dangling"); when no context
\* could be allocated redis_context is NULL.
db_init(m, outcome) ==
    IF outcome = "connected"
    THEN [m EXCEPT !.redis_context = "valid", !.rc = "EXIT_SUCCESS"]
    ELSE IF outcome = "no_context"
    THEN [m EXCEPT !.redis_context = "NULL", !.rc = "EXIT_FAILURE"]
    ELSE [m EXCEPT !.redis_context = "dangling", !.freed = @ + 1, !.rc = "EXIT_FAILURE"]

\* db_cleanup: redisFree when redis_context is not NULL.
db_cleanup(m) == IF m.redis_context # "NULL" THEN [m EXCEPT !.freed = @ + 1] ELSE m

\* main calls db_init and goes on whatever it returns.
DbInit ==
    /\ main.pc = "start"
    /\ \E outcome \in ConnectOutcomes :
           main' = [db_init(main, outcome) EXCEPT !.pc = "inited"]
    /\ UNCHANGED <<http, dbvars>>

\* MHD_start_daemon: the daemon serves requests, or it could not be started
\* and main cleans up and returns 1.
StartDaemon ==
    /\ main.pc = "inited"
    /\ \/ main' = [main EXCEPT !.pc = "serving"]
       \/ main' = [db_cleanup(main) EXCEPT !.pc = "exited"]
    /\ UNCHANGED <<http, dbvars>>

\* Enter is pressed: MHD_stop_daemon, db_cleanup, return 0.
StopDaemon ==
    /\ main.pc = "serving"
    /\ main' = [db_cleanup(main) EXCEPT !.pc = "exited"]
    /\ UNCHANGED <<http, dbvars>>

InitServer ==
    /\ store = EmptyStore
    /\ obuf = <<>>
    /\ inbuf = <<>>
    /\ rd = 0
    /\ net = "up"
    /\ sawErr = FALSE
    /\ alive = TRUE
    /\ last = Call("db_init", "", NULL, TRUE)
    /\ mutOnly = TRUE
    /\ live = {}
    /\ fresh = TRUE
    /\ ncalls = 0
    /\ peer = PeerIdle
    /\ main = MainStart
    /\ http = HttpIdle

NextServer ==
    \/ DbInit
    \/ StartDaemon
    \/ FirstCallback
    \/ UploadChunk
    \/ LastCallback
    \/ StopDaemon

SpecServer == InitServer /\ [][NextServer]_vars

\* C34: for a request with a body on one of the four body routes,
\* request_handler queues no response on the first callback nor while upload
\* chunks arrive, and when it is called with upload_data_size 0 it queues
\* exactly one response and has handed the route handler the concatenation
\* of all chunks in arrival order.
C34_BodyAccumulated ==
    [][(/\ http'.pc \in {"open", "done"}
        /\ http' # http
        /\ Route(http'.method, http'.url) \in BodyRoutes)
       => /\ http'.pc = "open" => http'.queued = 0
          /\ http'.pc = "done" =>
                 /\ http'.queued = 1
                 /\ http'.handed = CString(Concat(http'.arrived))]_vars

\* C35: for DELETE /v2/pet/{id} the id handed to the delete handler is
\* exactly the path segment after "/v2/pet/", the string that GET hands to
\* the lookup handler for the same URL.
C35_DeleteIdIsPathSegment ==
    (/\ http.pc = "done"
     /\ http.route = "delete_pet"
     /\ strncmp0(http.url, V2Pet \o <<"/">>, 8))
        => /\ http.handed = SubSeq(http.url, 9, Len(http.url))
           /\ http.handed \in ArgsOf("get_pet", http.url, http.data, http.query)

\* C36: handle_post_user_login returns success only if the username member of
\* the payload is the string "admin" and its password member is the string
\* "admin".
C36_LoginOnlyAdmin ==
    (/\ http.pc = "done"
     /\ http.route = "login"
     /\ http.status = 200)
        => /\ bson_init_from_json(http.handed)
           /\ bson_has_field(DocOf(http.handed), "username")
           /\ bson_has_field(DocOf(http.handed), "password")
           /\ MemberValue(bson_iter_init_find(DocOf(http.handed), "username")) = Str("admin")
           /\ MemberValue(bson_iter_init_find(DocOf(http.handed), "password")) = Str("admin")

\* C37: if db_init fails, the connection handle it freed, or never obtained,
\* is never used again: no request is served that runs a database function
\* on it, and db_cleanup does not free it a second time.
C37_FailedInitHandleUnused ==
    main.rc = "EXIT_FAILURE" => (~main.used /\ main.freed <= 1)

\* The keys a call formats with sprintf into a buffer of
\* strlen(collection_name) + 20 bytes: db_user_insert the primary-slot key,
\* the membership key and the username key; db_pet_insert the membership key
\* and, in store_document, the primary-slot key; db_user_delete the field id
\* collection:username.
FormattedKeys(call) ==
    IF call.op = "db_user_insert" /\ call.arg.id # Absent
    THEN {PrimaryKeyInt(call.c, cJSON_Parse(call.arg).id.valueint), MembershipKey(call.c)}
         \cup (IF call.arg.username # Absent
               THEN {UsernameAddKey(call.c, cJSON_Parse(call.arg).username.valuestring)}
               ELSE {})
    ELSE IF call.op = "db_pet_insert" /\ call.arg.id # Absent /\ call.arg.status # Absent
    THEN {MembershipKey(call.c), PrimaryKeyInt(call.c, cJSON_Parse(call.arg).id.valueint)}
    ELSE IF call.op = "db_user_delete"
    THEN {UsernameFieldId(call.c)}
    ELSE {}

\* C38: every key that db_user_insert, db_pet_insert, db_user_delete and
\* store_document format with sprintf fits, with its terminator, in the
\* buffer of strlen(collection_name) + 20 bytes allocated for it, whatever
\* the length of the username.
C38_KeysFitBuffer ==
    \A key \in FormattedKeys(last) : Fits(key, last.c)

=============================================================================
